---- MODULE Spec2Model ----
(***************************************************************************)
(* Model of object-property-tree (src/unnamed/part_001):                    *)
(* buildPropertyTree, processChild, getPropertyType, formatNodeToString    *)
(* and formatPropertyTreeToString.                                         *)
(*                                                                         *)
(* JavaScript values are records [t, s, n]: t is the runtime tag, s the    *)
(* text of a string / the description of a symbol, n the number, the       *)
(* boolean (0/1), the bigint, or the identity of a container (t = "ref").   *)
(* The object graph handed to buildPropertyTree is `heap`: for every        *)
(* container identity, whether it is an array and its own enumerable        *)
(* members in enumeration order, each with the way its read resolves.       *)
(* PropertyTreeNode objects live in the store `nodes`; a node's identity    *)
(* is its index, children hold identities, as the code holds references.    *)
(* `accessed` is the log of the member reads of the call and `dequeued`     *)
(* the history of the work items taken from the queue, both in order.       *)
(*                                                                         *)
(* The box-drawing glyphs of the renderer are written with one ASCII        *)
(* character each (the module is ASCII): U+2514 as "L", U+251C as "+",      *)
(* U+2500 as "-", U+2502 as "|".  Every glyph stays one character wide.     *)
(***************************************************************************)
EXTENDS Integers, Sequences, FiniteSets, TLC

VARIABLES heap, obj, maxDepth, rootName, pc, nodes, queue, thrown, accessed, output,
          dequeued

vars == <<heap, obj, maxDepth, rootName, pc, nodes, queue, thrown, accessed, output,
          dequeued>>

(***************************************************************************)
(* Bounds of the checked inputs.                                           *)
(***************************************************************************)
NumRefs == 2
MaxMembers == 3
MaxDepth == 3
MaxPad == 2
MaxFlat == 2

(***************************************************************************)
(* Program constants.                                                      *)
(***************************************************************************)
CIRCULAR_REFERENCE_MARKER == "[Circular Reference]"
ACCESS_ERROR_MARKER == "[Access Error]"
DisplayLimit == 50

LastConnector == "L- "
MidConnector == "+- "
LastIndent == "   "
MidIndent == "|  "

(***************************************************************************)
(* Values.                                                                 *)
(***************************************************************************)
Str(s) == [t |-> "string", s |-> s, n |-> 0]
Num(n) == [t |-> "number", s |-> "", n |-> n]
Bool(b) == [t |-> "boolean", s |-> "", n |-> IF b THEN 1 ELSE 0]
Sym(d) == [t |-> "symbol", s |-> d, n |-> 0]
Big(n) == [t |-> "bigint", s |-> "", n |-> n]
Null == [t |-> "null", s |-> "", n |-> 0]
Undefined == [t |-> "undefined", s |-> "", n |-> 0]
Func == [t |-> "function", s |-> "", n |-> 0]
Ref(r) == [t |-> "ref", s |-> "", n |-> r]

Refs == 1..NumRefs

IsRef(v) == v.t = "ref"

(* A depth argument is the rational num/den (den > 0): 3/2 is 1.5. *)
Depth(n, d) == [num |-> n, den |-> d]

IsNegative(d) == d.num < 0

NumberIsAnything(d) == TRUE

NumberIsInteger(d) == d.num % d.den = 0

DepthValue(d) == d.num \div d.den

(***************************************************************************)
(* getPropertyType                                                         *)
(***************************************************************************)
(* typeof alone: null is reported as an object *)
getPropertyTypeByTypeof(h, value) ==
  IF IsRef(value) /\ h[value.n].isArray THEN "array"
  ELSE IF IsRef(value) \/ value.t = "null" THEN "object"
  ELSE value.t

getPropertyType(h, value) ==
  IF value.t = "null" THEN "null"
  ELSE IF IsRef(value) /\ h[value.n].isArray THEN "array"
  ELSE IF IsRef(value) THEN "object"
  ELSE IF value.t \in {"string", "number", "boolean", "function", "symbol",
                       "bigint", "undefined"} THEN value.t
  ELSE "error"

(***************************************************************************)
(* Nodes and work items.                                                   *)
(***************************************************************************)
NewNode(name, type) ==
  [name |-> name, type |-> type, hasValue |-> FALSE, value |-> Undefined,
   hasChildren |-> FALSE, children |-> <<>>]

ErrorNode(name) ==
  [name |-> name, type |-> "error", hasValue |-> TRUE,
   value |-> Str(ACCESS_ERROR_MARKER), hasChildren |-> FALSE, children |-> <<>>]

(* the copy of the parent's set, without childVisited.add *)
WorkItemWithoutOwn(o, name, depth, parent, visited) ==
  [obj |-> o, name |-> name, depth |-> depth, parent |-> parent, visited |-> visited \ {o}]

(* one visited set for the whole walk, holding every container *)
WorkItemSharedVisited(o, name, depth, parent, visited) ==
  [obj |-> o, name |-> name, depth |-> depth, parent |-> parent, visited |-> Refs]

WorkItem(o, name, depth, parent, visited) ==
  [obj |-> o, name |-> name, depth |-> depth, parent |-> parent, visited |-> visited]

(* unshift in place of push: the child goes to the front *)
PushChildFront(ns, parent, child) ==
  IF ns[parent].hasChildren
  THEN [ns EXCEPT ![parent].children = <<child>> \o @]
  ELSE ns

(* parentNode.children?.push(child): nothing happens when children is absent *)
PushChild(ns, parent, child) ==
  IF ns[parent].hasChildren
  THEN [ns EXCEPT ![parent].children = Append(@, child)]
  ELSE ns

(***************************************************************************)
(* processChild.  st = [nodes, queue, accessed] is the state the call       *)
(* mutates.                                                                *)
(***************************************************************************)
CarriesOwnValueAlways(childType) == TRUE

CarriesOwnValueUnlessContainer(childType) == childType \notin {"object", "array"}

(* childType is neither "object" nor "array" nor "function" *)
CarriesOwnValue(childType) == childType \notin {"object", "array", "function"}

WithinDepthAlways(currentDepth, maxD) == TRUE

WithinDepthInclusive(currentDepth, maxD) == currentDepth + 1 <= maxD

(* currentDepth + 1 < maxDepth *)
WithinDepth(currentDepth, maxD) == currentDepth + 1 < maxD

VisitedHasNothing(visited, value) == FALSE

(* visited.has(valueAsObjectOrArray) *)
VisitedHas(visited, value) == value.n \in visited

InitChildrenLater(node) == node

(* childNode.children = [] *)
InitChildren(node) == [node EXCEPT !.hasChildren = TRUE, !.children = <<>>]

processChild(h, st, parentNode, keyOrIndex, value, currentDepth, maxD, visited) ==
  LET childType == getPropertyType(h, value)
      child == Len(st.nodes) + 1
      created == Append(st.nodes, NewNode(keyOrIndex, childType))
      pushed == PushChild(created, parentNode, child)
      valued == IF CarriesOwnValue(childType)
                THEN [pushed EXCEPT ![child].hasValue = TRUE, ![child].value = value]
                ELSE pushed
  IN IF WithinDepth(currentDepth, maxD) /\ childType \in {"object", "array"}
        /\ value.t # "null"
     THEN IF VisitedHas(visited, value)
          THEN [st EXCEPT !.nodes = [valued EXCEPT ![child].hasValue = TRUE,
                                       ![child].value = Str(CIRCULAR_REFERENCE_MARKER)]]
          ELSE [st EXCEPT !.nodes = [valued EXCEPT ![child] = InitChildren(@)],
                          !.queue = Append(st.queue,
                                      WorkItem(value.n, keyOrIndex, currentDepth + 1,
                                               child, visited \cup {value.n}))]
     ELSE [st EXCEPT !.nodes = valued]

(***************************************************************************)
(* Reading a member: currentObj[i], or the descriptor-driven read of a key. *)
(* kind "data": a data property; "getter": an accessor that returns val;    *)
(* "throws": an accessor that raises; "setter": an accessor without get.    *)
(***************************************************************************)
ReadRaises(m) == m.kind = "throws"

(* a descriptor without value and without getter read as null *)
ReadValueNullWithoutGetter(m) == IF m.kind = "setter" THEN Null ELSE m.val

ReadValue(m) == IF m.kind = "setter" THEN Undefined ELSE m.val

IndexLabel(i) == "[" \o ToString(i) \o "]"

(* One iteration of the for loop over the elements of an array (index i0, 0-based). *)
ArrayElementStep(h, st, item, i0, maxD) ==
  LET m == h[item.obj].members[i0 + 1]
      st1 == [st EXCEPT !.accessed = Append(@, <<item.obj, i0 + 1>>)]
  IN IF ReadRaises(m)
     THEN [st1 EXCEPT !.nodes = PushChild(Append(st1.nodes, ErrorNode(IndexLabel(i0))),
                                          item.parent, Len(st1.nodes) + 1)]
     ELSE processChild(h, st1, item.parent, IndexLabel(i0), ReadValue(m),
                       item.depth, maxD, item.visited)

(* a read of currentRecord[key] to test the member, and a second one for its value *)
ObjectKeyStepReadingTwice(h, st, item, k, maxD) ==
  LET m == h[item.obj].members[k]
      st1 == [st EXCEPT !.accessed = Append(Append(@, <<item.obj, k>>), <<item.obj, k>>)]
  IN IF ReadRaises(m)
     THEN [st1 EXCEPT !.nodes = PushChild(Append(st1.nodes, ErrorNode(m.key)),
                                          item.parent, Len(st1.nodes) + 1)]
     ELSE processChild(h, st1, item.parent, m.key, ReadValue(m),
                       item.depth, maxD, item.visited)

(* One iteration of the for loop over Object.keys of an object (position k, 1-based). *)
ObjectKeyStep(h, st, item, k, maxD) ==
  LET m == h[item.obj].members[k]
      st1 == [st EXCEPT !.accessed = Append(@, <<item.obj, k>>)]
  IN IF ReadRaises(m)
     THEN [st1 EXCEPT !.nodes = PushChild(Append(st1.nodes, ErrorNode(m.key)),
                                          item.parent, Len(st1.nodes) + 1)]
     ELSE processChild(h, st1, item.parent, m.key, ReadValue(m),
                       item.depth, maxD, item.visited)

(* a loop that a raising read ends *)
RECURSIVE MemberLoopEndedByRaise(_, _, _, _, _)
MemberLoopEndedByRaise(h, st, item, k, maxD) ==
  IF k > Len(h[item.obj].members) THEN st
  ELSE IF ReadRaises(h[item.obj].members[k])
  THEN IF h[item.obj].isArray
       THEN ArrayElementStep(h, st, item, k - 1, maxD)
       ELSE ObjectKeyStep(h, st, item, k, maxD)
  ELSE MemberLoopEndedByRaise(h,
                  IF h[item.obj].isArray
                  THEN ArrayElementStep(h, st, item, k - 1, maxD)
                  ELSE ObjectKeyStep(h, st, item, k, maxD),
                  item, k + 1, maxD)

RECURSIVE MemberLoop(_, _, _, _, _)
MemberLoop(h, st, item, k, maxD) ==
  IF k > Len(h[item.obj].members) THEN st
  ELSE MemberLoop(h,
                  IF h[item.obj].isArray
                  THEN ArrayElementStep(h, st, item, k - 1, maxD)
                  ELSE ObjectKeyStep(h, st, item, k, maxD),
                  item, k + 1, maxD)

(* queue.pop() in place of queue.shift(): the item pushed last *)
Pop(q) == [item |-> q[Len(q)], rest |-> SubSeq(q, 1, Len(q) - 1)]

(* queue.shift(): the item at the front, and the queue without it *)
Shift(q) == [item |-> Head(q), rest |-> Tail(q)]

(* One iteration of the while loop: queue.shift() and the expansion of the item. *)
LoopIteration(h, st, maxD) ==
  LET item == Shift(st.queue).item
  IN MemberLoop(h, [st EXCEPT !.queue = Shift(st.queue).rest], item, 1, maxD)

(***************************************************************************)
(* buildPropertyTree up to the while loop: validation, the root node, the   *)
(* early returns and the seeding of the queue.                             *)
(***************************************************************************)
InvalidDepthError(depth) == [name |-> "InvalidDepthError", depth |-> depth]

NoError == [name |-> "", depth |-> Depth(0, 1)]

BuildStart(h, o, d, name) ==
  LET rootType == getPropertyType(h, o)
      rootNode == NewNode(name, rootType)
      blank == [pc |-> "returned", nodes |-> <<>>, queue |-> <<>>,
                thrown |-> NoError, accessed |-> <<>>]
  IN IF IsNegative(d) \/ ~NumberIsInteger(d)
     THEN [blank EXCEPT !.pc = "threw", !.thrown = InvalidDepthError(d)]
     ELSE IF rootType \notin {"object", "array", "function"}
     THEN [blank EXCEPT !.nodes = <<[rootNode EXCEPT !.hasValue = TRUE, !.value = o]>>]
     ELSE IF DepthValue(d) = 0 \/ o.t = "null" \/ rootType = "function"
     THEN [blank EXCEPT !.nodes = <<rootNode>>]
     ELSE [blank EXCEPT !.pc = "loop",
                        !.nodes = <<[rootNode EXCEPT !.hasChildren = TRUE]>>,
                        !.queue = <<WorkItem(o.n, name, 0, 1, {o.n})>>]

(* The while loop run to its end, and the whole call. *)
RECURSIVE RunLoop(_, _, _)
RunLoop(h, st, maxD) ==
  IF st.queue = <<>> THEN st ELSE RunLoop(h, LoopIteration(h, st, maxD), maxD)

buildPropertyTree(h, o, d, name) ==
  LET st == BuildStart(h, o, d, name)
  IN IF st.pc = "loop"
     THEN [RunLoop(h, [nodes |-> st.nodes, queue |-> st.queue,
                       accessed |-> st.accessed], DepthValue(d))
             EXCEPT !.queue = <<>>]
     ELSE [nodes |-> st.nodes, queue |-> st.queue, accessed |-> st.accessed]

(***************************************************************************)
(* formatNodeToString and formatPropertyTreeToString.                      *)
(***************************************************************************)
RECURSIVE EscapeNewlines(_)
EscapeNewlines(s) ==
  IF s = "" THEN ""
  ELSE (IF SubSeq(s, 1, 1) = "\n" THEN "\\n" ELSE SubSeq(s, 1, 1))
       \o EscapeNewlines(SubSeq(s, 2, Len(s)))

Slice(s, n) == IF Len(s) <= n THEN s ELSE SubSeq(s, 1, n)

(* String(value) of a value that is not a string *)
JsString(v) ==
  CASE v.t = "number" -> ToString(v.n)
    [] v.t = "bigint" -> ToString(v.n)
    [] v.t = "boolean" -> (IF v.n = 1 THEN "true" ELSE "false")
    [] v.t = "null" -> "null"
    [] v.t = "undefined" -> "undefined"
    [] v.t = "symbol" -> "Symbol(" \o v.s \o ")"
    [] v.t = "string" -> v.s
    [] v.t = "function" -> "function"
    [] OTHER -> "[object Object]"

IsMarkerNever(v) == FALSE

IsMarker(v) ==
  v.t = "string" /\ v.s \in {CIRCULAR_REFERENCE_MARKER, ACCESS_ERROR_MARKER}

StringDisplay(s) ==
  "\"" \o Slice(EscapeNewlines(s), DisplayLimit)
       \o (IF Len(s) > DisplayLimit THEN "..." ELSE "") \o "\""

ValueSuffix(node) ==
  IF ~node.hasValue THEN ""
  ELSE IF IsMarker(node.value) THEN ": " \o node.value.s
  ELSE IF node.type \notin {"object", "array", "function"}
  THEN IF node.value.t = "string"
       THEN ": " \o StringDisplay(node.value.s)
       ELSE ": " \o JsString(node.value)
  ELSE ""

NodeLine(node, indent, isLast) ==
  indent \o (IF isLast THEN LastConnector ELSE MidConnector)
         \o node.name \o " (" \o node.type \o ")" \o ValueSuffix(node)

ChildIndentBlank(indent, isLast) == indent \o LastIndent

ChildIndent(indent, isLast) == indent \o (IF isLast THEN LastIndent ELSE MidIndent)

RECURSIVE formatNodeToString(_, _, _, _)
RECURSIVE FormatChildren(_, _, _, _)
FormatChildren(ns, children, index, childIndent) ==
  IF index > Len(children) THEN ""
  ELSE "\n" \o formatNodeToString(ns, children[index], childIndent,
                                   index = Len(children))
       \o FormatChildren(ns, children, index + 1, childIndent)

formatNodeToString(ns, id, indent, isLast) ==
  NodeLine(ns[id], indent, isLast)
    \o (IF ns[id].hasChildren /\ Len(ns[id].children) > 0
        THEN FormatChildren(ns, ns[id].children, 1, ChildIndent(indent, isLast))
        ELSE "")

formatPropertyTreeToString(ns) == formatNodeToString(ns, 1, "", TRUE)

(***************************************************************************)
(* Inputs.                                                                 *)
(***************************************************************************)
ValidDepths == {Depth(n, 1) : n \in 0..MaxDepth}

DepthInputs == ValidDepths \cup {Depth(-1, 1), Depth(3, 2)}

KeyAt(k) == SubSeq("abcdefghijklmnop", k, k)

Data(v) == [kind |-> "data", val |-> v]
Getter(v) == [kind |-> "getter", val |-> v]
Throws == [kind |-> "throws", val |-> Undefined]
SetterOnly == [kind |-> "setter", val |-> Undefined]

Container(isArray, items) ==
  [isArray |-> isArray,
   members |-> [k \in 1..Len(items) |->
                  [key |-> IF isArray THEN ToString(k - 1) ELSE KeyAt(k),
                   kind |-> items[k].kind, val |-> items[k].val]]]

EmptyHeap == [r \in Refs |-> Container(FALSE, <<>>)]

(* flat containers: one object or array of at most MaxFlat members *)
FlatContainers(items) ==
  {Container(b, is) : b \in BOOLEAN, is \in UNION {[1..n -> items] : n \in 0..MaxFlat}}

(* object graphs of at most MaxMembers members in all: a graph is the list   *)
(* of its <<owner, item>> pairs, owners in order; the containers of even     *)
(* identity are arrays                                                       *)
OwnedItems(items) ==
  {f \in UNION {[1..n -> Refs \X items] : n \in 0..MaxMembers} :
     \A i \in 1..(Len(f) - 1) : f[i][1] <= f[i + 1][1]}

ItemsOf(f, r) ==
  LET mine == SelectSeq(f, LAMBDA p : p[1] = r)
  IN [k \in 1..Len(mine) |-> mine[k][2]]

(* the containers a walk from container 1 can reach *)
RECURSIVE ReachableFrom(_, _)
ReachableFrom(h, seen) ==
  LET RefsIn(r) == {h[r].members[k].val.n :
                      k \in {j \in 1..Len(h[r].members) : IsRef(h[r].members[j].val)}}
      more == seen \cup UNION {RefsIn(r) : r \in seen}
  IN IF more = seen THEN seen ELSE ReachableFrom(h, more)

Graphs(items) ==
  {h \in {[r \in Refs |-> Container(r % 2 = 0, ItemsOf(f, r))] : f \in OwnedItems(items)} :
     \A r \in Refs \ ReachableFrom(h, {1}) : h[r].members = <<>>}

(* object graphs: members are references, a short text, a function, a raising accessor *)
GraphItems == {Data(Ref(r)) : r \in Refs} \cup {Data(Str("ok")), Data(Func), Throws}

RECURSIVE Xs(_)
Xs(n) == IF n = 0 THEN "" ELSE "x" \o Xs(n - 1)

RECURSIVE Newlines(_)
Newlines(n) == IF n = 0 THEN "" ELSE "\n" \o Newlines(n - 1)

(* texts around the display limit, with and without embedded newlines *)
Texts ==
  {Xs(a) \o Newlines(j) \o Xs(b) :
     a \in {0} \cup ((DisplayLimit - MaxPad)..(DisplayLimit + MaxPad)),
     j \in 0..MaxPad, b \in 0..MaxPad}
  \cup {"hello", CIRCULAR_REFERENCE_MARKER, ACCESS_ERROR_MARKER}

Primitives ==
  {Str(s) : s \in Texts}
  \cup {Num(42), Num(-1), Bool(TRUE), Bool(FALSE), Sym("test"), Big(123),
        Null, Undefined}

(* flat containers: members of every kind of value and of every kind of read *)
FlatItems ==
  {Data(Str("bee")), Data(Str(Xs(DisplayLimit - 1) \o "\n")),
   Data(Str(ACCESS_ERROR_MARKER)), Data(Num(1)), Data(Null), Data(Undefined),
   Data(Func), Data(Ref(1)), Getter(Bool(TRUE)), Throws, SetterOnly}

(***************************************************************************)
(* The state machine: one call of buildPropertyTree followed by one call    *)
(* of formatPropertyTreeToString on its result.                            *)
(***************************************************************************)
InitCall ==
  /\ pc = "start"
  /\ nodes = <<>>
  /\ queue = <<>>
  /\ thrown = NoError
  /\ accessed = <<>>
  /\ output = ""
  /\ dequeued = <<>>

Init ==
  /\ heap \in Graphs(GraphItems)
  /\ obj = Ref(1)
  /\ maxDepth \in ValidDepths
  /\ rootName = "root"
  /\ InitCall

InitText ==
  /\ \/ /\ heap = EmptyHeap
        /\ obj \in Primitives \cup {Func}
     \/ /\ \E c \in FlatContainers(FlatItems) : heap = [EmptyHeap EXCEPT ![1] = c]
        /\ obj = Ref(1)
  /\ maxDepth \in DepthInputs
  /\ rootName \in {"root", "myObject"}
  /\ InitCall

BuildEnter ==
  /\ pc = "start"
  /\ \E st \in {BuildStart(heap, obj, maxDepth, rootName)} :
        /\ pc' = st.pc
        /\ nodes' = st.nodes
        /\ queue' = st.queue
        /\ thrown' = st.thrown
        /\ accessed' = st.accessed
  /\ UNCHANGED <<heap, obj, maxDepth, rootName, output, dequeued>>

BuildLoop ==
  /\ pc = "loop"
  /\ queue # <<>>
  /\ \E st \in {LoopIteration(heap, [nodes |-> nodes, queue |-> queue,
                                    accessed |-> accessed], DepthValue(maxDepth))} :
        /\ nodes' = st.nodes
        /\ queue' = st.queue
        /\ accessed' = st.accessed
  /\ dequeued' = Append(dequeued, Shift(queue).item)
  /\ UNCHANGED <<heap, obj, maxDepth, rootName, pc, thrown, output>>

BuildReturn ==
  /\ pc = "loop"
  /\ queue = <<>>
  /\ pc' = "returned"
  /\ UNCHANGED <<heap, obj, maxDepth, rootName, nodes, queue, thrown, accessed, output,
                 dequeued>>

FormatTree ==
  /\ pc = "returned"
  /\ output' = formatPropertyTreeToString(nodes)
  /\ pc' = "formatted"
  /\ UNCHANGED <<heap, obj, maxDepth, rootName, nodes, queue, thrown, accessed,
                 dequeued>>

Next == BuildEnter \/ BuildLoop \/ BuildReturn \/ FormatTree

Spec == Init /\ [][Next]_vars

SpecText == InitText /\ [][Next]_vars

(* object graphs for the run to the end of the call: members are references *)
(* (cycles, shared containers) or a short text                              *)
LinkItems == {Data(Ref(r)) : r \in Refs} \cup {Data(Str("ok"))}

InitFair ==
  /\ heap \in Graphs(LinkItems)
  /\ obj = Ref(1)
  /\ maxDepth \in ValidDepths
  /\ rootName = "root"
  /\ InitCall

(* object graphs of one more container, for walks that expand containers two *)
(* levels below the root                                                     *)
DeepRefs == 1..(NumRefs + 1)

DeepItems == {Data(Ref(r)) : r \in DeepRefs} \cup {Data(Str("ok"))}

DeepOwnedItems ==
  {f \in UNION {[1..n -> DeepRefs \X DeepItems] : n \in 0..MaxMembers} :
     \A i \in 1..(Len(f) - 1) : f[i][1] <= f[i + 1][1]}

DeepGraphs ==
  {h \in {[r \in DeepRefs |-> Container(r % 2 = 0, ItemsOf(f, r))] : f \in DeepOwnedItems} :
     \A r \in DeepRefs \ ReachableFrom(h, {1}) : h[r].members = <<>>}

InitDeep ==
  /\ heap \in DeepGraphs
  /\ obj = Ref(1)
  /\ maxDepth \in ValidDepths
  /\ rootName = "root"
  /\ InitCall

SpecDeep == InitDeep /\ [][Next]_vars

(* object graphs with accessors: members are references, a text, an accessor *)
(* that returns and an accessor that raises; every depth argument            *)
AccessorItems ==
  {Data(Ref(r)) : r \in Refs} \cup {Data(Str("ok")), Getter(Str("ok")), Throws}

InitAccessors ==
  /\ heap \in Graphs(AccessorItems)
  /\ obj = Ref(1)
  /\ maxDepth \in DepthInputs
  /\ rootName = "root"
  /\ InitCall

SpecAccessors == InitAccessors /\ [][Next]_vars

(* The call is one sequential run: a step that can be taken is taken. *)
SpecFair == InitFair /\ [][Next]_vars /\ WF_vars(Next)

(***************************************************************************)
(* The tree read back from the node store, and the place of every node in   *)
(* the object graph it was built from.                                     *)
(***************************************************************************)
NodeIds == 1..Len(nodes)

Built == pc \in {"loop", "returned", "formatted"}

MaxD == DepthValue(maxDepth)

HasParent(id) == \E p \in NodeIds : \E i \in 1..Len(nodes[p].children) : nodes[p].children[i] = id

ParentOf(id) == CHOOSE p \in NodeIds : \E i \in 1..Len(nodes[p].children) : nodes[p].children[i] = id

PositionOf(id) == CHOOSE i \in 1..Len(nodes[ParentOf(id)].children) : nodes[ParentOf(id)].children[i] = id

IsLastSibling(id) ==
  ~HasParent(id) \/ PositionOf(id) = Len(nodes[ParentOf(id)].children)

RECURSIVE NodeDepth(_)
NodeDepth(id) == IF HasParent(id) THEN 1 + NodeDepth(ParentOf(id)) ELSE 0

RECURSIVE Ancestors(_)
Ancestors(id) ==
  IF HasParent(id) THEN {ParentOf(id)} \cup Ancestors(ParentOf(id)) ELSE {}

(* the member of the graph a node stands for, and the value its read gives *)
RECURSIVE SourceValue(_)
MemberOfNode(id) == heap[SourceValue(ParentOf(id)).n].members[PositionOf(id)]

SourceValue(id) == IF HasParent(id) THEN ReadValue(MemberOfNode(id)) ELSE obj

IsContainerMember(id) ==
  HasParent(id) /\ ~ReadRaises(MemberOfNode(id)) /\ IsRef(SourceValue(id))

(* the containers on the path from the root container to the parent of id *)
PathRefs(id) == {SourceValue(a).n : a \in Ancestors(id)}

OnOwnPath(id) == SourceValue(id).n \in PathRefs(id)

IsQueued(id) == \E i \in 1..Len(queue) : queue[i].parent = id

CycleMarked(id) ==
  /\ nodes[id].type \in {"object", "array"}
  /\ nodes[id].hasValue
  /\ nodes[id].value = Str(CIRCULAR_REFERENCE_MARKER)
  /\ ~nodes[id].hasChildren
  /\ ~IsQueued(id)

Unexpanded(id) ==
  /\ nodes[id].type \in {"object", "array"}
  /\ ~nodes[id].hasValue
  /\ ~nodes[id].hasChildren
  /\ ~IsQueued(id)

(***************************************************************************)
(* C1 as stated: whatever maxDepth >= 1, every composite/list member whose  *)
(* container is already on the path being expanded becomes an object/array *)
(* node carrying the circular-reference marker, without children, and is   *)
(* not enqueued.                                                           *)
(***************************************************************************)
C1_CycleMarkedAtAnyDepth ==
  (Built /\ MaxD >= 1) =>
    \A id \in NodeIds : (IsContainerMember(id) /\ OnOwnPath(id)) => CycleMarked(id)

(***************************************************************************)
(* C1 amended: the marking happens only below the depth bound.  A member   *)
(* on its own path read at depth d is marked (marker, no children, not     *)
(* enqueued) when d + 1 < maxDepth, and is left without value and without  *)
(* children when d + 1 >= maxDepth.                                        *)
(***************************************************************************)
C1_CycleMarkedBelowDepthBound ==
  Built =>
    \A id \in NodeIds :
      (IsContainerMember(id) /\ OnOwnPath(id)) =>
        IF NodeDepth(id) < MaxD THEN CycleMarked(id) ELSE Unexpanded(id)

C1_Witness ==
  /\ pc = "returned"
  /\ \E id \in NodeIds :
       IsContainerMember(id) /\ OnOwnPath(id) /\ NodeDepth(id) < MaxD /\ CycleMarked(id)
  /\ \E id \in NodeIds :
       IsContainerMember(id) /\ OnOwnPath(id) /\ NodeDepth(id) = MaxD /\ Unexpanded(id)

(***************************************************************************)
(* C2 as stated: in the returned tree an object/array node has children    *)
(* if and only if its depth from the root is below maxDepth.               *)
(***************************************************************************)
C2_ChildrenIffBelowDepth ==
  pc = "returned" =>
    \A id \in NodeIds :
      nodes[id].type \in {"object", "array"} =>
        (nodes[id].hasChildren <=> NodeDepth(id) < MaxD)

(***************************************************************************)
(* C2 amended: in the returned tree an object/array node has children if   *)
(* and only if its depth is below maxDepth and its container is not        *)
(* already on its own path (it is not a detected cycle).                   *)
(***************************************************************************)
C2_ChildrenIffBelowDepthAndNoCycle ==
  pc = "returned" =>
    \A id \in NodeIds :
      nodes[id].type \in {"object", "array"} =>
        (nodes[id].hasChildren <=> (NodeDepth(id) < MaxD /\ ~OnOwnPath(id)))

C2_Witness ==
  /\ pc = "returned"
  /\ MaxD = 2
  /\ \E id \in NodeIds : NodeDepth(id) = 1 /\ nodes[id].hasChildren
                         /\ Len(nodes[id].children) > 0
  /\ \E id \in NodeIds : NodeDepth(id) = 2 /\ nodes[id].type \in {"object", "array"}
                         /\ ~nodes[id].hasChildren
  /\ \E id \in NodeIds : NodeDepth(id) = 1 /\ nodes[id].type \in {"object", "array"}
                         /\ OnOwnPath(id) /\ ~nodes[id].hasChildren

(***************************************************************************)
(* C3: buildPropertyTree fails with InvalidDepthError carrying the         *)
(* offending depth if and only if maxDepth is negative or not a whole      *)
(* number; it fails before any node is created or any member read; and     *)
(* maxDepth = 0 never fails.                                               *)
(***************************************************************************)
IsWhole(d) == \E k \in -(MaxDepth + 2)..(MaxDepth + 2) : d.num = k * d.den

BelowZero(d) == d.num * d.den < 0

C3_InvalidDepthRejectedFirst ==
  pc # "start" =>
    /\ (pc = "threw") <=> (BelowZero(maxDepth) \/ ~IsWhole(maxDepth))
    /\ (pc = "threw") <=> (thrown = InvalidDepthError(maxDepth))
    /\ (pc # "threw") <=> (thrown = NoError)
    /\ pc = "threw" => (nodes = <<>> /\ queue = <<>> /\ accessed = <<>>)
    /\ maxDepth = Depth(0, 1) => pc # "threw"

C3_Witness ==
  /\ pc = "threw"
  /\ maxDepth = Depth(3, 2)
  /\ thrown.depth = Depth(3, 2)
  /\ Len(heap[1].members) > 0
  /\ obj = Ref(1)

(***************************************************************************)
(* C4: a member whose read raises becomes an error node carrying           *)
(* "[Access Error]" and no children, the call returns normally, and every  *)
(* other member, of that container and of the others, yields the node      *)
(* (kind, value, subtree) it yields when the raising members are not there. *)
(***************************************************************************)
WithoutRaisingMembers(h) ==
  [r \in DOMAIN h |->
     [h[r] EXCEPT !.members = SelectSeq(h[r].members, LAMBDA m : ~ReadRaises(m))]]

(* the tree under a node without its error nodes; the labels of the elements *)
(* of an array are their positions and are left out                          *)
RECURSIVE Subtree(_, _, _)
Subtree(ns, id, labelled) ==
  LET kept == SelectSeq(ns[id].children, LAMBDA c : ns[c].type # "error")
  IN [name |-> IF labelled THEN ns[id].name ELSE "",
      type |-> ns[id].type,
      hasValue |-> ns[id].hasValue,
      value |-> ns[id].value,
      hasChildren |-> ns[id].hasChildren,
      kids |-> [i \in 1..Len(kept) |-> Subtree(ns, kept[i], ns[id].type # "array")]]

IsErrorLeaf(node) ==
  /\ node.type = "error"
  /\ node.hasValue
  /\ node.value = Str("[Access Error]")
  /\ ~node.hasChildren

C4_ErrorIsolation ==
  /\ Built =>
       \A id \in NodeIds :
         /\ HasParent(id) =>
              (ReadRaises(MemberOfNode(id)) <=> nodes[id].type = "error")
         /\ nodes[id].type = "error" => IsErrorLeaf(nodes[id])
  /\ pc = "returned" =>
       /\ thrown = NoError
       /\ Subtree(nodes, 1, TRUE)
            = Subtree(buildPropertyTree(WithoutRaisingMembers(heap), obj,
                                        maxDepth, rootName).nodes, 1, TRUE)

C4_Witness ==
  /\ pc = "returned"
  /\ \E e, c \in NodeIds :
       /\ nodes[e].type = "error"
       /\ HasParent(e) /\ HasParent(c) /\ ParentOf(e) = ParentOf(c)
       /\ PositionOf(e) < PositionOf(c)
       /\ nodes[c].hasChildren
       /\ \E k \in 1..Len(nodes[c].children) : nodes[nodes[c].children[k]].type = "error"

(***************************************************************************)
(* C5: no node has both value and children; an object/array node carries   *)
(* a value only when it is the circular-reference marker; a function node  *)
(* carries neither value nor children.                                     *)
(***************************************************************************)
C5_NodeShape ==
  \A id \in NodeIds :
    /\ ~(nodes[id].hasValue /\ nodes[id].hasChildren)
    /\ (nodes[id].type \in {"object", "array"} /\ nodes[id].hasValue)
         => nodes[id].value = Str("[Circular Reference]")
    /\ nodes[id].type = "function" => (~nodes[id].hasValue /\ ~nodes[id].hasChildren)

C5_Witness ==
  /\ pc = "returned"
  /\ \E f, c \in NodeIds :
       /\ nodes[f].type = "function" /\ NodeDepth(f) = 2
       /\ nodes[c].type \in {"object", "array"} /\ nodes[c].hasValue

(***************************************************************************)
(* The rendered text read back line by line, against the tree in pre-order. *)
(***************************************************************************)
RECURSIVE SplitLines(_)
SplitLines(s) ==
  IF \E i \in 1..Len(s) : SubSeq(s, i, i) = "\n"
  THEN LET i == CHOOSE i \in 1..Len(s) :
                  /\ SubSeq(s, i, i) = "\n"
                  /\ \A j \in 1..(i - 1) : SubSeq(s, j, j) # "\n"
       IN <<SubSeq(s, 1, i - 1)>> \o SplitLines(SubSeq(s, i + 1, Len(s)))
  ELSE <<s>>

RECURSIVE PreOrder(_, _)
RECURSIVE PreOrderAll(_, _, _)
PreOrderAll(ns, children, i) ==
  IF i > Len(children) THEN <<>>
  ELSE PreOrder(ns, children[i]) \o PreOrderAll(ns, children, i + 1)

PreOrder(ns, id) == <<id>> \o PreOrderAll(ns, ns[id].children, 1)

OutputLines == SplitLines(output)

LineOf(id) ==
  OutputLines[CHOOSE i \in 1..Len(PreOrder(nodes, 1)) : PreOrder(nodes, 1)[i] = id]

(* a line without its indent and connector, three characters per level *)
AfterConnector(id) == SubSeq(LineOf(id), 3 * (NodeDepth(id) + 1) + 1, Len(LineOf(id)))

NameAndType(id) == nodes[id].name \o " (" \o nodes[id].type \o ")"

SuffixOf(id) == SubSeq(AfterConnector(id), Len(NameAndType(id)) + 1, Len(AfterConnector(id)))

Rendered == pc = "formatted" /\ Len(OutputLines) = Len(PreOrder(nodes, 1))

StartsWith(s, p) == Len(s) >= Len(p) /\ SubSeq(s, 1, Len(p)) = p

EndsWith(s, p) == Len(s) >= Len(p) /\ SubSeq(s, Len(s) - Len(p) + 1, Len(s)) = p

(***************************************************************************)
(* C6: a string value is shown with its newlines escaped, cut to its first *)
(* 50 characters, and followed by "..." if and only if the escaped text is *)
(* longer than 50 characters (the cut removed something).                  *)
(***************************************************************************)
C6_EllipsisIffCut ==
  pc = "formatted" =>
    \A id \in NodeIds :
      (nodes[id].type = "string" /\ nodes[id].hasValue /\ ~IsMarker(nodes[id].value)) =>
        LET escaped == EscapeNewlines(nodes[id].value.s)
        IN SuffixOf(id) = ": \"" \o Slice(escaped, 50)
                            \o (IF Len(escaped) > 50 THEN "..." ELSE "") \o "\""

(***************************************************************************)
(* C7: every string node that carries a value is rendered in double quotes. *)
(***************************************************************************)
C7_StringsQuoted ==
  pc = "formatted" =>
    \A id \in NodeIds :
      (nodes[id].type = "string" /\ nodes[id].hasValue) =>
        (StartsWith(SuffixOf(id), ": \"") /\ EndsWith(SuffixOf(id), "\"")
         /\ Len(SuffixOf(id)) >= 4)

(***************************************************************************)
(* C8: a node's line ends with ": <rendered value>" if and only if the      *)
(* node carries a value; without a value the line is "<name> (<type>)".     *)
(***************************************************************************)
C8_SuffixIffValue ==
  pc = "formatted" =>
    LET lines == OutputLines
        order == PreOrder(nodes, 1)
    IN /\ Len(lines) = Len(order)
       /\ {order[i] : i \in 1..Len(order)} = NodeIds
       /\ \A i \in 1..Len(order) :
            LET id == order[i]
                text == SubSeq(lines[i], 3 * (NodeDepth(id) + 1) + 1, Len(lines[i]))
                suffix == SubSeq(text, Len(NameAndType(id)) + 1, Len(text))
            IN /\ StartsWith(text, NameAndType(id))
               /\ nodes[id].hasValue => (StartsWith(suffix, ": ") /\ Len(suffix) > 2)
               /\ ~nodes[id].hasValue => suffix = ""

C8_Witness ==
  /\ pc = "formatted"
  /\ \E c, n \in NodeIds :
       /\ nodes[c].type = "object" /\ nodes[c].hasValue
       /\ SuffixOf(c) = ": [Circular Reference]"
       /\ nodes[n].type = "null" /\ SuffixOf(n) = ": null"
  /\ ~nodes[1].hasValue /\ SuffixOf(1) = ""

(***************************************************************************)
(* C9: lines are in pre-order; a node at depth d has an indent of 3*d      *)
(* characters whose k-th segment is blank when the ancestor at depth k-1   *)
(* is the last of its siblings (the root counts as last) and a bar         *)
(* otherwise; its connector is the corner if and only if the node is the   *)
(* final child of its parent (or the root), else the tee.                  *)
(***************************************************************************)
AncestorAt(id, depth) ==
  CHOOSE a \in Ancestors(id) \cup {id} : NodeDepth(a) = depth

IsEmptyContainerNode(id) ==
  /\ IsRef(SourceValue(id))
  /\ HasParent(id) => ~ReadRaises(MemberOfNode(id))
  /\ heap[SourceValue(id).n].members = <<>>

C10_EmptyContainers ==
  /\ pc \in {"returned", "formatted"} =>
       \A id \in NodeIds :
         (IsEmptyContainerNode(id) /\ NodeDepth(id) < MaxD /\ ~OnOwnPath(id)) =>
           /\ nodes[id].hasChildren
           /\ nodes[id].children = <<>>
           /\ ~nodes[id].hasValue
  /\ pc = "formatted" =>
       /\ Len(OutputLines) = Len(PreOrder(nodes, 1))
       /\ \A id \in NodeIds :
            (IsEmptyContainerNode(id) /\ NodeDepth(id) < MaxD /\ ~OnOwnPath(id)) =>
              AfterConnector(id) = NameAndType(id)
       /\ (IsEmptyContainerNode(1) /\ MaxD >= 1) => output = "L- root (object)"

C10_Witness ==
  /\ pc = "formatted"
  /\ \E id \in NodeIds :
       /\ HasParent(id)
       /\ IsEmptyContainerNode(id)
       /\ nodes[id].type = "array"
       /\ nodes[id].hasChildren
       /\ LineOf(id) = "   +- a (array)"

(***************************************************************************)
(* C11: for a root of terminal kind (string, number, boolean, symbol,      *)
(* bigint, null, undefined) and every valid maxDepth, 0 included, the call *)
(* returns without failing a single node: the given root label, the kind   *)
(* of the value, the value itself, no children; nothing is queued and no   *)
(* member is read.  null gives kind "null" with value null, undefined      *)
(* gives kind "undefined" with value undefined.                            *)
(***************************************************************************)
TerminalKinds == {"string", "number", "boolean", "symbol", "bigint", "null", "undefined"}

KindOfTerminal(v) ==
  CASE v = Null -> "null"
    [] v = Undefined -> "undefined"
    [] v.t = "string" -> "string"
    [] v.t = "number" -> "number"
    [] v.t = "boolean" -> "boolean"
    [] v.t = "symbol" -> "symbol"
    [] v.t = "bigint" -> "bigint"

C11_TerminalRoot ==
  (obj.t \in TerminalKinds /\ ~BelowZero(maxDepth) /\ IsWhole(maxDepth) /\ pc # "start") =>
    /\ pc \in {"returned", "formatted"}
    /\ thrown = NoError
    /\ nodes = <<[name |-> rootName, type |-> KindOfTerminal(obj), hasValue |-> TRUE,
                  value |-> obj, hasChildren |-> FALSE, children |-> <<>>]>>
    /\ queue = <<>>
    /\ accessed = <<>>
    /\ obj = Null => (nodes[1].type = "null" /\ nodes[1].value = Null)
    /\ obj = Undefined => (nodes[1].type = "undefined" /\ nodes[1].value = Undefined)
    /\ obj \in {Null, Undefined} => nodes[1].type # getPropertyType(heap,
                                       IF obj = Null THEN Undefined ELSE Null)

C11_Witness ==
  /\ pc = "returned"
  /\ obj = Null
  /\ maxDepth = Depth(0, 1)
  /\ rootName = "myObject"
  /\ nodes = <<[name |-> "myObject", type |-> "null", hasValue |-> TRUE,
                value |-> Null, hasChildren |-> FALSE, children |-> <<>>]>>

(***************************************************************************)
(* Inputs whose text holds a line break outside a string value: a root     *)
(* label of two lines and a symbol whose description has two lines.        *)
(***************************************************************************)
RootLabels == {"root", "two\nlines"}

LabelRoots == {Str("hello"), Str("two\nlines"), Num(42), Null, Undefined, Func,
               Sym("test"), Sym("two\nlines")}

InitLabels ==
  /\ \/ /\ heap = EmptyHeap
        /\ obj \in LabelRoots
     \/ /\ \E c \in FlatContainers(FlatItems) : heap = [EmptyHeap EXCEPT ![1] = c]
        /\ obj = Ref(1)
  /\ maxDepth \in DepthInputs
  /\ rootName \in RootLabels
  /\ InitCall

SpecLabels == InitLabels /\ [][Next]_vars

HasNewline(s) == \E i \in 1..Len(s) : SubSeq(s, i, i) = "\n"

(***************************************************************************)
(* C12: with maxDepth = 0, whatever the input value and the root label,    *)
(* the tree is the root node alone, without children, and its rendering is *)
(* one line: it holds no newline character (so no trailing one either).    *)
(***************************************************************************)
C12_DepthZeroOneLine ==
  (maxDepth = Depth(0, 1) /\ pc \in {"returned", "formatted"}) =>
    /\ Len(nodes) = 1
    /\ ~nodes[1].hasChildren
    /\ nodes[1].children = <<>>
    /\ pc = "formatted" => ~HasNewline(output)

(***************************************************************************)
(* C13 as stated: a member whose descriptor has neither a value nor a      *)
(* getter (setter only) yields a child of kind "null" carrying null, not   *)
(* an access-error node.                                                   *)
(***************************************************************************)
IsSetterOnlyMember(id) == HasParent(id) /\ MemberOfNode(id).kind = "setter"

C13_SetterOnlyIsNull ==
  Built =>
    \A id \in NodeIds :
      IsSetterOnlyMember(id) =>
        /\ nodes[id].type = "null"
        /\ nodes[id].hasValue
        /\ nodes[id].value = Null
        /\ nodes[id].type # "error"

(***************************************************************************)
(* C13 amended: such a member yields a child of kind "undefined" carrying  *)
(* undefined, without children; it is not an access-error node and it is   *)
(* not null.                                                               *)
(***************************************************************************)
C13_SetterOnlyIsUndefined ==
  Built =>
    \A id \in NodeIds :
      IsSetterOnlyMember(id) =>
        /\ nodes[id].type = "undefined"
        /\ nodes[id].hasValue
        /\ nodes[id].value = Undefined
        /\ nodes[id].value # Null
        /\ ~nodes[id].hasChildren
        /\ nodes[id].type # "error"
        /\ nodes[id].value # Str(ACCESS_ERROR_MARKER)

C13_Witness ==
  /\ pc = "formatted"
  /\ \E id \in NodeIds :
       /\ IsSetterOnlyMember(id)
       /\ nodes[ParentOf(id)].type = "object"
       /\ nodes[id].type = "undefined"
       /\ LineOf(id) = "   L- b (undefined): undefined"

(***************************************************************************)
(* C14: when the call has returned, the children of every expanded node    *)
(* are the members of its container, one node per member and in the order  *)
(* of enumeration: the k-th child is labelled "[k-1]" in an array and by   *)
(* the k-th key in an object, it is an access-error node exactly when the  *)
(* read of the k-th member raises, and otherwise has the kind of the       *)
(* member's value.  Every node but the root is the child of one node at    *)
(* one position: no member is skipped, duplicated or reordered.            *)
(***************************************************************************)
KindOfValue(v) ==
  IF IsRef(v) THEN (IF heap[v.n].isArray THEN "array" ELSE "object") ELSE v.t

PlacesOf(id) ==
  {pi \in NodeIds \X (1..MaxMembers + 1) :
     pi[2] <= Len(nodes[pi[1]].children) /\ nodes[pi[1]].children[pi[2]] = id}

C14_ChildrenMatchMembers ==
  pc = "returned" =>
    /\ \A id \in NodeIds :
         nodes[id].hasChildren =>
           LET c == heap[SourceValue(id).n]
           IN /\ Len(nodes[id].children) = Len(c.members)
              /\ \A k \in 1..Len(c.members) :
                   LET child == nodes[nodes[id].children[k]]
                       m == c.members[k]
                   IN /\ child.name = IF c.isArray
                                      THEN "[" \o ToString(k - 1) \o "]"
                                      ELSE m.key
                      /\ (m.kind = "throws") <=> (child.type = "error")
                      /\ m.kind = "throws" => child.value = Str("[Access Error]")
                      /\ m.kind # "throws" => child.type = KindOfValue(m.val)
    /\ PlacesOf(1) = {}
    /\ \A id \in NodeIds \ {1} : Cardinality(PlacesOf(id)) = 1

C14_Witness ==
  /\ pc = "returned"
  /\ \E id \in NodeIds :
       /\ nodes[id].type = "object"
       /\ Len(nodes[id].children) = 2
       /\ nodes[nodes[id].children[1]].type = "error"
       /\ nodes[nodes[id].children[1]].name = "a"
       /\ nodes[nodes[id].children[2]].type = "array"
       /\ nodes[nodes[id].children[2]].name = "b"
       /\ Len(nodes[nodes[id].children[2]].children) = 1
       /\ nodes[nodes[nodes[id].children[2]].children[1]].name = "[0]"

(***************************************************************************)
(* C15: for every graph, with cycles and shared containers, and every      *)
(* valid maxDepth the queue becomes empty and the call returns; and at     *)
(* every step no queued work item is for a container that is already on    *)
(* the path above it, nor has a depth that reaches maxDepth.               *)
(***************************************************************************)
QueueWithinBounds ==
  \A i \in 1..Len(queue) :
    /\ queue[i].depth < MaxD
    /\ queue[i].depth = NodeDepth(queue[i].parent)
    /\ queue[i].obj = SourceValue(queue[i].parent).n
    /\ queue[i].obj \notin PathRefs(queue[i].parent)

Returned == pc \in {"returned", "formatted"} /\ queue = <<>> /\ thrown = NoError

C15_Terminates == [](Built => QueueWithinBounds) /\ <>Returned

C15_Witness ==
  /\ pc = "returned"
  /\ queue = <<>>
  /\ MaxD = MaxDepth
  /\ \E id \in NodeIds : IsContainerMember(id) /\ OnOwnPath(id) /\ CycleMarked(id)
  /\ \E a, b \in NodeIds :
       /\ a # b
       /\ IsContainerMember(a) /\ IsContainerMember(b)
       /\ SourceValue(a) = SourceValue(b)
       /\ nodes[a].hasChildren /\ nodes[b].hasChildren

(***************************************************************************)
(* C16: a node carries the circular-reference marker only if it stands     *)
(* for a container that is the root container or the container of one of   *)
(* its ancestors.  A container that is not on the path above a node (it    *)
(* may be referenced from other branches as well) is never marked there:   *)
(* below the depth bound each of its nodes has children, and when the call *)
(* has returned each of them holds one child per member of the container.  *)
(***************************************************************************)
HasCycleMarker(id) ==
  /\ nodes[id].type \in {"object", "array"}
  /\ nodes[id].hasValue
  /\ nodes[id].value = Str("[Circular Reference]")

C16_PathScopedCycles ==
  Built =>
    \A id \in NodeIds :
      /\ HasCycleMarker(id) =>
           /\ IsContainerMember(id)
           /\ \E a \in Ancestors(id) : SourceValue(a) = SourceValue(id)
      /\ (IsContainerMember(id) /\ ~OnOwnPath(id)) =>
           /\ ~HasCycleMarker(id)
           /\ ~nodes[id].hasValue
           /\ NodeDepth(id) < MaxD => nodes[id].hasChildren
           /\ (NodeDepth(id) < MaxD /\ pc = "returned") =>
                Len(nodes[id].children) = Len(heap[SourceValue(id).n].members)

C16_Witness ==
  /\ pc = "returned"
  /\ \E a, b \in NodeIds :
       /\ a # b
       /\ HasParent(a) /\ HasParent(b) /\ ParentOf(a) = ParentOf(b)
       /\ IsContainerMember(a) /\ IsContainerMember(b)
       /\ SourceValue(a) = SourceValue(b)
       /\ ~OnOwnPath(a)
       /\ nodes[a].hasChildren /\ nodes[b].hasChildren
       /\ Len(nodes[a].children) = 1 /\ Len(nodes[b].children) = 1
       /\ HasCycleMarker(nodes[a].children[1])
       /\ HasCycleMarker(nodes[b].children[1])

(***************************************************************************)
(* C17: work items leave the queue in the order they entered it (an item   *)
(* enters when its parent node is created, so entry order is the order of  *)
(* the parent nodes); the depths of the items taken from the queue never   *)
(* decrease; and no item is taken while an item of smaller depth waits:    *)
(* every container at depth d is expanded before any at depth d + 1.       *)
(***************************************************************************)
EverQueued == dequeued \o queue

C17_BreadthFirst ==
  Built =>
    /\ \A i, j \in 1..Len(EverQueued) :
         i < j => EverQueued[i].parent < EverQueued[j].parent
    /\ \A i, j \in 1..Len(dequeued) :
         i < j => dequeued[i].depth <= dequeued[j].depth
    /\ \A i \in 1..Len(dequeued) : \A j \in 1..Len(queue) :
         dequeued[i].depth <= queue[j].depth
    /\ \A id \in NodeIds :
         (nodes[id].hasChildren /\ pc = "returned") =>
           \E i \in 1..Len(dequeued) : dequeued[i].parent = id

C17_Witness ==
  /\ pc = "returned"
  /\ Len(dequeued) = 4
  /\ dequeued[1].depth = 0
  /\ dequeued[2].depth = 1
  /\ dequeued[3].depth = 1
  /\ dequeued[4].depth = 2
  /\ nodes[dequeued[4].parent].name = "[0]"
  /\ ParentOf(dequeued[4].parent) = dequeued[2].parent

(***************************************************************************)
(* C18: at every step, each work item that is or was in the queue has      *)
(* 0 <= depth < maxDepth and a parent node with children initialized and   *)
(* no value; so every child appended takes effect: each member read, the   *)
(* raising ones included, has given one node, and every node but the root  *)
(* is in the children of a node.                                           *)
(***************************************************************************)
RECURSIVE CountChildren(_)
CountChildren(n) == IF n = 0 THEN 0 ELSE Len(nodes[n].children) + CountChildren(n - 1)

C18_WorkItemsWellFormed ==
  Built =>
    /\ \A i \in 1..Len(EverQueued) :
         /\ 0 <= EverQueued[i].depth
         /\ EverQueued[i].depth < MaxD
         /\ EverQueued[i].parent \in NodeIds
         /\ nodes[EverQueued[i].parent].hasChildren
         /\ ~nodes[EverQueued[i].parent].hasValue
    /\ Len(nodes) = 1 + Len(accessed)
    /\ CountChildren(Len(nodes)) = Len(accessed)
    /\ \A id \in NodeIds \ {1} : HasParent(id)

C18_Witness ==
  /\ pc = "returned"
  /\ MaxD = 2
  /\ \E i \in 1..Len(dequeued) :
       /\ dequeued[i].depth = 1
       /\ Len(nodes[dequeued[i].parent].children) = 2
       /\ nodes[nodes[dequeued[i].parent].children[1]].type = "error"
       /\ nodes[nodes[dequeued[i].parent].children[2]].type \in {"object", "array"}

(***************************************************************************)
(* C19: the visited set of every work item, waiting or already taken, is   *)
(* the set of the containers on the path from the root container to the    *)
(* item's own container, both included: it holds depth + 1 containers, the *)
(* item's own among them, and it is the same in every later state.         *)
(***************************************************************************)
C19_VisitedIsPath ==
  Built =>
    \A i \in 1..Len(EverQueued) :
      LET item == EverQueued[i]
      IN /\ item.obj = SourceValue(item.parent).n
         /\ item.visited = PathRefs(item.parent) \cup {item.obj}
         /\ item.obj \in item.visited
         /\ obj.n \in item.visited
         /\ Cardinality(item.visited) = item.depth + 1
         /\ item.depth = NodeDepth(item.parent)

C19_Witness ==
  /\ pc = "returned"
  /\ \E i, j \in 1..Len(dequeued) :
       /\ dequeued[i].obj = dequeued[j].obj
       /\ dequeued[i].depth = 1
       /\ dequeued[j].depth = 2
       /\ Cardinality(dequeued[i].visited) = 2
       /\ Cardinality(dequeued[j].visited) = 3

(***************************************************************************)
(* C20: the reads made by the call are, in order, the members of the       *)
(* containers taken from the queue, each member once per expansion of its  *)
(* container; so an accessor is invoked only during an expansion of its    *)
(* container and once per expansion.  Nothing is read when maxDepth is     *)
(* invalid or 0, and a node left unexpanded (at the depth bound or marked  *)
(* circular) adds no invocation: when the call has returned, the number of *)
(* invocations of an accessor is the number of nodes of its container that *)
(* have children.                                                          *)
(***************************************************************************)
IsAccessor(m) == m.kind \in {"getter", "throws"}

ReadsOfItem(item) == [k \in 1..Len(heap[item.obj].members) |-> <<item.obj, k>>]

RECURSIVE ReadsOfItems(_)
ReadsOfItems(items) ==
  IF items = <<>> THEN <<>> ELSE ReadsOfItem(Head(items)) \o ReadsOfItems(Tail(items))

Invocations(r, k) == Cardinality({i \in 1..Len(accessed) : accessed[i] = <<r, k>>})

ExpandedNodes(r) ==
  {id \in NodeIds : nodes[id].hasChildren /\ IsRef(SourceValue(id)) /\ SourceValue(id).n = r}

C20_AccessorsInvokedOncePerExpansion ==
  /\ accessed = ReadsOfItems(dequeued)
  /\ \A r \in DOMAIN heap : \A k \in 1..Len(heap[r].members) :
       IsAccessor(heap[r].members[k]) =>
         /\ Invocations(r, k) = Cardinality({i \in 1..Len(dequeued) : dequeued[i].obj = r})
         /\ pc \in {"returned", "formatted"} =>
              Invocations(r, k) = Cardinality(ExpandedNodes(r))
  /\ (BelowZero(maxDepth) \/ ~IsWhole(maxDepth) \/ maxDepth = Depth(0, 1)) =>
       (accessed = <<>> /\ dequeued = <<>>)

C20_Witness ==
  /\ pc = "returned"
  /\ Len(heap[1].members) = 3
  /\ heap[1].members[1].kind = "getter"
  /\ heap[1].members[3].kind = "throws"
  /\ Invocations(1, 1) = 1
  /\ Invocations(1, 3) = 1
  /\ ExpandedNodes(1) = {1}
  /\ \E id \in NodeIds : CycleMarked(id) /\ SourceValue(id) = Ref(1)

====
